---- MODULE Spec2Model ----
(***************************************************************************)
(* Budgeto: the pay-cycle projection engine.                               *)
(*   app/lib/bills.ts            calculateUpcomingBillsTotal,              *)
(*                               calculateBillsBetweenDates                *)
(*   app/lib/payCalculations.ts  generateProjectedSchedule,                *)
(*                               calculateNextPayday,                      *)
(*                               calculateAnnualSalary,                    *)
(*                               calculateTargetCycleAmount                *)
(*   convex/userSettings.ts      upsert                                    *)
(*   convex/bills.ts             addBill, updateBill, deleteBill,          *)
(*                               listActiveBillsByUserId                   *)
(*   app/routes (settings, bills) the actions that save settings and edit  *)
(*                               a bill                                    *)
(*   app/inngest/functions       scheduleNotifications,                    *)
(*                               sendPaydayNotification                    *)
(* A Date is a number of ticks; a day has TicksPerDay ticks and day 0 is   *)
(* Monday 2024-01-01 (local time, one implicit zone, no DST).              *)
(***************************************************************************)
EXTENDS Integers, Sequences, FiniteSets, TLC

VARIABLES bills, dateRange, totalAmount, now, settings, count, schedule, called,
          thrown, earlier,
          paydayArgs, nextPayday,
          payAmount, payFrequency, annualSalary, targetFrequency, targetCycleAmount,
          userSettings, billsTable, nextId, dbArgs, listed, returnedId,
          runs, emails

\* the exception that escaped the last call; the first call of
\* generateProjectedSchedule: when it was made and what came of it
callVars == <<thrown, earlier>>

\* the arguments and the result of calculateNextPayday
paydayVars == <<paydayArgs, nextPayday>>

\* the arguments and the results of the pay cycle conversions
cycleVars == <<payAmount, payFrequency, annualSalary, targetFrequency, targetCycleAmount>>

\* the Convex tables, the arguments of the last call on the bills table, the
\* list it returned if it was a query and the id the last upsert returned
dbVars == <<userSettings, billsTable, nextId, dbArgs, listed, returnedId>>

\* the runs of the Inngest function scheduleNotifications and the emails handed
\* to Resend
notifyVars == <<runs, emails>>

vars == <<bills, dateRange, totalAmount, now, settings, count, schedule, called,
          callVars, paydayVars, cycleVars, dbVars, notifyVars>>

(* ------------------------------ bounds --------------------------------- *)
TicksPerDay == 2
FirstDay == 57
Horizon == 6
MaxBills == 2
MaxCount == 2
MaxBillDocs == 2
Precision == 11

\* an absent string (undefined or null)
NoValue == "undefined"

\* an optional number is a set with at most one element: {} is undefined, null
\* or a value that is not a number
None == {}

\* the number NaN, also the time value of an Invalid Date: no number of the model
\* is that small
NaN == -(2 ^ 30)

Some(n) == {n}

IsNumber(x) == x # {}

Num(x) == CHOOSE n \in x : TRUE

(* ------------------------------ dates ---------------------------------- *)
DayOf(t) == t \div TicksPerDay

TimeOf(t) == t % TicksPerDay

At(day, tick) == day * TicksPerDay + tick

startOfDay(t) == At(DayOf(t), 0)

endOfDay(t) == At(DayOf(t), TicksPerDay - 1)

isSameDay(a, b) == DayOf(a) = DayOf(b)

isBefore(a, b) == a < b

isAfter(a, b) == a > b

isWithinIntervalOpenEnd(t, interval) == interval.start <= t /\ t < interval.end

isWithinInterval(t, interval) == interval.start <= t /\ t <= interval.end

IsLeapYear(y) == (y % 4 = 0 /\ y % 100 # 0) \/ y % 400 = 0

DaysInYear(y) == IF IsLeapYear(y) THEN 366 ELSE 365

\* m is the JavaScript month, 0..11
DaysInMonth(y, m) ==
  IF m = 1 THEN (IF IsLeapYear(y) THEN 29 ELSE 28)
  ELSE IF m \in {3, 5, 8, 10} THEN 30 ELSE 31

RECURSIVE DaysBeforeYear(_)
DaysBeforeYear(y) ==
  IF y <= 2024 THEN 0 ELSE DaysBeforeYear(y - 1) + DaysInYear(y - 1)

RECURSIVE DaysBeforeMonth(_, _)
DaysBeforeMonth(y, m) ==
  IF m <= 0 THEN 0 ELSE DaysBeforeMonth(y, m - 1) + DaysInMonth(y, m - 1)

\* new Date(y, m, d): the day number of a calendar date (d may overflow the month)
DayNumber(y, m, d) == DaysBeforeYear(y) + DaysBeforeMonth(y, m) + d - 1

RECURSIVE YearSplit(_, _)
YearSplit(y, n) ==
  IF n < DaysInYear(y) THEN [year |-> y, rest |-> n]
  ELSE YearSplit(y + 1, n - DaysInYear(y))

RECURSIVE MonthSplit(_, _, _)
MonthSplit(y, m, n) ==
  IF n < DaysInMonth(y, m) THEN [month |-> m, date |-> n + 1]
  ELSE MonthSplit(y, m + 1, n - DaysInMonth(y, m))

\* getFullYear / getMonth / getDate of a day number
Calendar(day) ==
  LET ys == YearSplit(2024, day)
      ms == MonthSplit(ys.year, 0, ys.rest)
  IN  [year |-> ys.year, month |-> ms.month, date |-> ms.date]

\* getDay: 0 = Sunday; day 0 is a Monday
getDay(t) == (DayOf(t) + 1) % 7

\* date-fns setDate: Date.prototype.setDate, which overflows into the next month
setDate(t, dayOfMonth) ==
  LET c == Calendar(DayOf(t))
  IN  At(DayNumber(c.year, c.month, 1) + dayOfMonth - 1, TimeOf(t))

\* date-fns addMonths(date, 1): same day of the next month, clamped to its last day
addMonths(t, amount) ==
  LET c  == Calendar(DayOf(t))
      mm == c.month + amount
      y  == c.year + (mm \div 12)
      m  == mm % 12
      daysInMonth == DaysInMonth(y, m)
  IN  IF c.date >= daysInMonth
      THEN At(DayNumber(y, m, daysInMonth), TimeOf(t))
      ELSE At(DayNumber(y, m, c.date), TimeOf(t))

addDays(t, amount) == t + amount * TicksPerDay

addWeeksOfOneDay(t, amount) == addDays(t, amount)

addWeeks(t, amount) == addDays(t, amount * 7)

(* ------------------------------ bills ---------------------------------- *)
MaxBackwardIterations == 1000

\* a bill document with a numeric amount and creation time
Bill(frequency, amount, dueDate, creationTime, isActive) ==
  [frequency |-> frequency, amount |-> Some(amount), dueDate |-> dueDate,
   _creationTime |-> Some(creationTime), isActive |-> isActive]

\* one-off branch
OneOffAmount(bill, interval) ==
  IF ~IsNumber(bill.dueDate) THEN 0
  ELSE IF Num(bill.dueDate) = NaN THEN 0
  ELSE IF isWithinInterval(Num(bill.dueDate), interval) THEN Num(bill.amount) ELSE 0

\* the monthly while loop
RECURSIVE MonthlyLoop(_, _, _)
MonthlyLoop(currentMonthDate, billAmount, interval) ==
  IF isAfter(currentMonthDate, interval.end) THEN 0
  ELSE LET hit == IF isWithinInterval(currentMonthDate, interval) THEN billAmount ELSE 0
           nextMonthDate == addMonths(currentMonthDate, 1)
       IN  IF isSameDay(nextMonthDate, currentMonthDate) THEN hit
           ELSE hit + MonthlyLoop(nextMonthDate, billAmount, interval)

\* a monthly bill whose dueDate is NaN passes the guard, as NaN < 1 and NaN > 31
\* are false; currentMonthDate is then an Invalid Date, neither after rangeEnd nor
\* the same day as its own addMonths, and the while loop never ends
MonthlyLoopsForever(bill) ==
  /\ IsNumber(bill.amount) /\ Num(bill.amount) # NaN
  /\ bill.frequency = "monthly"
  /\ bill.dueDate = Some(NaN)

\* monthly branch
MonthlyAmount(bill, interval) ==
  IF ~IsNumber(bill.dueDate) THEN 0
  ELSE IF Num(bill.dueDate) = NaN THEN 0
  ELSE IF Num(bill.dueDate) < 1 \/ Num(bill.dueDate) > 31 THEN 0
  ELSE LET first == setDate(interval.start, Num(bill.dueDate))
           currentMonthDate ==
             IF isBefore(first, interval.start) THEN addMonths(first, 1) ELSE first
       IN  MonthlyLoop(currentMonthDate, Num(bill.amount), interval)

\* addIntervalFn is addWeeks for a weekly bill and (date) => addWeeks(date, 2),
\* which ignores its second argument, for a fortnightly one
addIntervalFn(frequency, t, n) ==
  IF frequency = "weekly" THEN addWeeks(t, n) ELSE addWeeks(t, 2)

\* the backward while loop. Each iteration replaces currentDate by
\* addIntervalFn(currentDate, -1) and counts one backwardIterations; the loop
\* runs while currentDate > rangeStart and backwardIterations <
\* maxBackwardIterations. A step that moves back by p ticks leaves the loop after
\* ceil((initialDueDate - rangeStart) / p) iterations, a step that does not move
\* back only at the iteration limit.
BackwardLoop(initialDueDate, frequency, rangeStart) ==
  LET step == addIntervalFn(frequency, 0, -1)
      needed == IF ~(initialDueDate > rangeStart) THEN 0
                ELSE IF step < 0
                THEN (initialDueDate - rangeStart + (-step) - 1) \div (-step)
                ELSE MaxBackwardIterations
      backwardIterations ==
        IF needed < MaxBackwardIterations THEN needed ELSE MaxBackwardIterations
  IN  [currentDate |-> initialDueDate + backwardIterations * step,
       backwardIterations |-> backwardIterations]

\* the forward while loop
RECURSIVE ForwardLoop(_, _, _, _)
ForwardLoop(currentDate, billAmount, frequency, interval) ==
  IF ~(currentDate <= interval.end) THEN 0
  ELSE LET hit == IF currentDate >= interval.start /\ isWithinInterval(currentDate, interval)
                  THEN billAmount ELSE 0
           nextDate == addIntervalFn(frequency, currentDate, 1)
       IN  IF isSameDay(nextDate, currentDate) THEN hit
           ELSE hit + ForwardLoop(nextDate, billAmount, frequency, interval)

\* weekly / fortnightly branch
RecurringAmount(bill, interval) ==
  IF ~IsNumber(bill._creationTime) \/ bill._creationTime = Some(NaN) THEN 0
  ELSE ForwardLoop(BackwardLoop(Num(bill._creationTime), bill.frequency, interval.start).currentDate,
                   Num(bill.amount), bill.frequency, interval)

\* the body of bills.forEach: what one bill adds to totalAmount
BillAmount(bill, interval) ==
  IF ~IsNumber(bill.amount) \/ Num(bill.amount) = NaN THEN 0
  ELSE IF bill.frequency = "one-off" THEN OneOffAmount(bill, interval)
  ELSE IF bill.frequency = "monthly" THEN MonthlyAmount(bill, interval)
  ELSE IF bill.frequency \in {"weekly", "fortnightly"} THEN RecurringAmount(bill, interval)
  ELSE 0

RECURSIVE ForEach(_, _)
ForEach(bs, interval) ==
  IF bs = <<>> THEN 0
  ELSE BillAmount(Head(bs), interval) + ForEach(Tail(bs), interval)

\* the bills that forEach reaches: all of them, or those up to the first one
\* whose loop never ends
RECURSIVE Reached(_)
Reached(bs) ==
  IF bs = <<>> THEN <<>>
  ELSE IF MonthlyLoopsForever(Head(bs)) THEN <<>>
  ELSE <<Head(bs)>> \o Reached(Tail(bs))

\* the call never returns
NeverReturns(bs) == \E i \in 1..Len(bs) : MonthlyLoopsForever(bs[i])

\* the value of totalAmount when the call returns or, if it never does, from the
\* moment it is stuck
calculateUpcomingBillsTotal(bs, range) ==
  LET rangeStart == startOfDay(range.startDate)
      rangeEnd   == endOfDay(range.endDate)
  IN  ForEach(Reached(bs), [start |-> rangeStart, end |-> rangeEnd])

calculateBillsBetweenDates(bs, startDate, endDate) ==
  calculateUpcomingBillsTotal(bs, [startDate |-> startDate, endDate |-> endDate])

(* --------------------------- input domains ----------------------------- *)
LastDay == FirstDay + Horizon

Days == FirstDay..LastDay

Times == {At(d, k) : d \in Days, k \in 0..(TicksPerDay - 1)}

DateRanges ==
  {r \in [startDate : Times, endDate : Times] : DayOf(r.startDate) <= DayOf(r.endDate)}

\* a creation time more than MaxBackwardIterations weeks after every range start
FarFuture == At(LastDay + 7 * MaxBackwardIterations + 3, 0)

BillPool ==
  {Bill("monthly", 3, Some(31), At(0, 1), TRUE),
   Bill("monthly", 5, Some(1), At(0, 1), FALSE),
   Bill("one-off", 7, Some(At(FirstDay + 2, TicksPerDay - 1)), At(0, 1), TRUE),
   Bill("one-off", 9, Some(At(FirstDay + 4, 0)), At(0, 1), FALSE),
   Bill("weekly", 11, None, At(FirstDay - 10, 1), TRUE),
   Bill("weekly", 13, None, FarFuture, TRUE),
   Bill("fortnightly", 17, None, At(FirstDay - 11, 1), TRUE),
   Bill("fortnightly", 19, None, At(FirstDay + 3, 0), TRUE)}

RECURSIVE SeqsUpTo(_, _)
SeqsUpTo(S, n) ==
  IF n = 0 THEN {<<>>}
  ELSE LET shorter == SeqsUpTo(S, n - 1)
       IN  shorter \cup {Append(s, x) : s \in {q \in shorter : Len(q) = n - 1}, x \in S}

NoSettings == [desiredPayFrequency |-> NoValue, desiredPayDayOfWeek |-> NoValue,
               desiredPayAmount |-> None, nextPaydayTimestamp |-> None]

NoRange == [startDate |-> 0, endDate |-> 0]

NoArgs == [frequency |-> NoValue, dayOfMonth |-> None, dayOfWeek |-> NoValue]

NoCall == [now |-> 0, count |-> 0, schedule |-> <<>>, thrown |-> "none"]

\* no call has been made and nothing has been thrown
CallIdle == thrown = "none" /\ earlier = NoCall

\* calculateNextPayday has not been called
PaydayIdle == paydayArgs = NoArgs /\ nextPayday = None

\* no pay cycle conversion has been called
CycleIdle ==
  /\ payAmount = None /\ payFrequency = NoValue /\ annualSalary = None
  /\ targetFrequency = NoValue /\ targetCycleAmount = None

NoDbArgs == [userId |-> NoValue]

\* both tables are empty
DbIdle ==
  /\ userSettings = {} /\ billsTable = {} /\ nextId = 1
  /\ dbArgs = NoDbArgs /\ listed = <<>> /\ returnedId = None

\* no event has arrived and no email has been sent
NotifyIdle == runs = <<>> /\ emails = {}

(* --------------------- the bill occurrence expander -------------------- *)
InitBills ==
  /\ bills \in SeqsUpTo(BillPool, MaxBills)
  /\ dateRange = NoRange
  /\ totalAmount = 0
  /\ now = At(FirstDay, 0)
  /\ settings = NoSettings
  /\ count = 0
  /\ schedule = <<>>
  /\ called = "none"
  /\ CallIdle /\ PaydayIdle /\ CycleIdle /\ DbIdle /\ NotifyIdle

CalculateUpcomingBillsTotal ==
  /\ called = "none"
  /\ \E range \in DateRanges :
       /\ dateRange' = range
       /\ totalAmount' = calculateUpcomingBillsTotal(bills, range)
  /\ called' = IF NeverReturns(bills) THEN "running" ELSE "calculateUpcomingBillsTotal"
  /\ UNCHANGED <<bills, now, settings, count, schedule>>
  /\ UNCHANGED <<callVars, paydayVars, cycleVars, dbVars, notifyVars>>

CalculateBillsBetweenDates ==
  /\ called = "none"
  /\ \E range \in DateRanges :
       /\ dateRange' = range
       /\ totalAmount' = calculateBillsBetweenDates(bills, range.startDate, range.endDate)
  /\ called' = IF NeverReturns(bills) THEN "running" ELSE "calculateBillsBetweenDates"
  /\ UNCHANGED <<bills, now, settings, count, schedule>>
  /\ UNCHANGED <<callVars, paydayVars, cycleVars, dbVars, notifyVars>>

NextBills == CalculateUpcomingBillsTotal \/ CalculateBillsBetweenDates

SpecBills == InitBills /\ [][NextBills]_vars

Returned == called \in {"calculateUpcomingBillsTotal", "calculateBillsBetweenDates"}

(* ------------------- properties of the bill expander ------------------- *)
RECURSIVE SumSeq(_)
SumSeq(q) == IF q = <<>> THEN 0 ELSE Head(q) + SumSeq(Tail(q))

Interval == [start |-> startOfDay(dateRange.startDate), end |-> endOfDay(dateRange.endDate)]

RangeDays == DayOf(dateRange.startDate)..DayOf(dateRange.endDate)

IsActive(bill) == bill.isActive # FALSE

\* C1: an inactive bill never contributes: the total equals the total of the
\* list with every bill whose isActive is false removed.
C1_InactiveNeverContributes ==
  Returned => totalAmount = calculateUpcomingBillsTotal(SelectSeq(bills, IsActive), dateRange)

\* C2: interval additivity: for every day b with start <= b < end, the total
\* over [start, end] is the sum of the totals over [start, b] and [b+1, end].
C2_IntervalAdditivity ==
  Returned =>
    \A b \in RangeDays \ {DayOf(dateRange.endDate)} :
      totalAmount =
          calculateUpcomingBillsTotal(bills, [startDate |-> dateRange.startDate, endDate |-> At(b, 0)])
        + calculateUpcomingBillsTotal(bills, [startDate |-> At(b + 1, 0), endDate |-> dateRange.endDate])

\* the occurrence of a monthly bill in the month of a day: min(d, last day of the month)
IsMonthlyOccurrence(dayOfMonth, day) ==
  LET c == Calendar(day)
      last == DaysInMonth(c.year, c.month)
  IN  c.date = (IF dayOfMonth < last THEN dayOfMonth ELSE last)

ExpectedMonthly(bill) ==
  Num(bill.amount) * Cardinality({day \in RangeDays : IsMonthlyOccurrence(Num(bill.dueDate), day)})

\* C3: a monthly bill with due day d contributes its amount exactly once for
\* every month whose occurrence date min(d, last day of the month) lies in
\* [start, end], and nothing else.
C3_MonthlyOncePerMonth ==
  Returned =>
    totalAmount = SumSeq([i \in 1..Len(bills) |->
                    IF bills[i].frequency = "monthly" /\ bills[i].dueDate \subseteq 1..31
                       /\ IsNumber(bills[i].dueDate) /\ IsNumber(bills[i].amount)
                    THEN ExpectedMonthly(bills[i])
                    ELSE BillAmount(bills[i], Interval)])

PeriodDays(frequency) == IF frequency = "weekly" THEN 7 ELSE 14

\* the dates createdAt + k * period, k any integer, that lie in the interval
Occurrences(bill) ==
  {t \in Interval.start..Interval.end :
     (t - Num(bill._creationTime)) % (PeriodDays(bill.frequency) * TicksPerDay) = 0}

\* C4: a weekly or fortnightly bill contributes its amount once for every date
\* createdAt + k * period (k any integer) whose day lies in [start, end], and
\* nothing for any other date.
C4_RecurringEveryPeriod ==
  Returned =>
    totalAmount = SumSeq([i \in 1..Len(bills) |->
                    IF bills[i].frequency \in {"weekly", "fortnightly"}
                       /\ IsNumber(bills[i]._creationTime) /\ IsNumber(bills[i].amount)
                    THEN Num(bills[i].amount) * Cardinality(Occurrences(bills[i]))
                    ELSE BillAmount(bills[i], Interval)])

DueInRange(bill) ==
  /\ IsNumber(bill.dueDate)
  /\ DayOf(dateRange.startDate) <= DayOf(Num(bill.dueDate))
  /\ DayOf(Num(bill.dueDate)) <= DayOf(dateRange.endDate)

SubRanges == {r \in DateRanges : dateRange.startDate <= r.startDate /\ r.endDate <= dateRange.endDate}

\* C30: for bills with positive amounts the total is monotone in the interval:
\* the total over any interval contained in the interval of the call is at
\* most the total the call returned, and the total returned is not negative.
C30_MonotoneInInterval ==
  (Returned /\ \A i \in 1..Len(bills) : Num(bills[i].amount) > 0) =>
    /\ totalAmount >= 0
    /\ \A r \in SubRanges : calculateUpcomingBillsTotal(bills, r) <= totalAmount

(* ------------------------- invalid bills -------------------------------- *)
\* the active bills of BillPool that are anchored before the window
ValidBillPool ==
  {b \in BillPool : b.isActive /\ Num(b._creationTime) < At(FirstDay, 0)}

InvalidBillPool ==
  {[Bill("monthly", 0, Some(1), At(0, 1), TRUE) EXCEPT !.amount = None],
   Bill("monthly", NaN, Some(1), At(0, 1), TRUE),
   Bill("one-off", 23, None, At(0, 1), TRUE),
   Bill("one-off", 23, Some(NaN), At(0, 1), TRUE),
   Bill("monthly", 29, None, At(0, 1), TRUE),
   Bill("monthly", 29, Some(0), At(0, 1), TRUE),
   Bill("monthly", 29, Some(32), At(0, 1), TRUE),
   Bill("monthly", 29, Some(NaN), At(0, 1), TRUE),
   Bill("weekly", 37, None, NaN, TRUE),
   Bill("yearly", 31, Some(1), At(FirstDay - 10, 1), TRUE)}

\* the list L with x inserted before position i
InsertAt(L, i, x) == SubSeq(L, 1, i - 1) \o <<x>> \o SubSeq(L, i, Len(L))

InitInvalid ==
  /\ bills \in UNION {{InsertAt(L, i, x) : i \in 1..(Len(L) + 1), x \in InvalidBillPool} :
                         L \in SeqsUpTo(ValidBillPool, MaxBills)}
  /\ dateRange = NoRange
  /\ totalAmount = 0
  /\ now = At(FirstDay, 0)
  /\ settings = NoSettings
  /\ count = 0
  /\ schedule = <<>>
  /\ called = "none"
  /\ CallIdle /\ PaydayIdle /\ CycleIdle /\ DbIdle /\ NotifyIdle

SpecInvalid == InitInvalid /\ [][NextBills]_vars

\* the invalid bills of C12
IsInvalidBill(bill) ==
  \/ bill.amount = None \/ bill.amount = Some(NaN)
  \/ bill.frequency = "one-off" /\ (bill.dueDate = None \/ bill.dueDate = Some(NaN))
  \/ bill.frequency = "monthly" /\ ~(bill.dueDate # {} /\ bill.dueDate \subseteq 1..31)
  \/ bill.frequency \notin {"monthly", "fortnightly", "weekly", "one-off"}

IsValidBill(bill) == ~IsInvalidBill(bill)

\* C12: one invalid bill never changes the contribution of the others: for every
\* list L and every invalid bill x (non-numeric or NaN amount, missing or
\* non-numeric dueDate of a one-off, dueDate missing or outside 1..31 of a monthly,
\* unrecognised frequency) the call on L with x inserted at any position returns,
\* with the total of L.
C12_InvalidBillContributesNothing ==
  called # "none" =>
    /\ Returned
    /\ totalAmount = calculateUpcomingBillsTotal(SelectSeq(bills, IsValidBill), dateRange)

\* C25: calculateUpcomingBillsTotal terminates for every bill list and every
\* interval, whatever the stored field values, a monthly dueDate or a creation
\* time that yields an Invalid Date included: no loop of any bill runs for
\* ever, so every call returns.
C25_AlwaysTerminates == called # "running"

(* ------------------ bills at the backward iteration limit -------------- *)
\* weekly bills created more than MaxBackwardIterations weeks after the first
\* day: MaxBackwardIterations weeks before the creation of the first lies the
\* third day of the window, before that of the second a day after the window;
\* and a fortnightly bill created inside the window
LimitBillPool ==
  {Bill("weekly", 41, None, At(FirstDay + 7 * MaxBackwardIterations + 2, 0), TRUE),
   Bill("weekly", 13, None, FarFuture, TRUE),
   Bill("fortnightly", 19, None, At(FirstDay + 3, 0), TRUE)}

InitLimit ==
  /\ bills \in UNION {{InsertAt(L, i, x) : i \in 1..(Len(L) + 1), x \in LimitBillPool} :
                         L \in SeqsUpTo(ValidBillPool, MaxBills)}
  /\ dateRange = NoRange
  /\ totalAmount = 0
  /\ now = At(FirstDay, 0)
  /\ settings = NoSettings
  /\ count = 0
  /\ schedule = <<>>
  /\ called = "none"
  /\ CallIdle /\ PaydayIdle /\ CycleIdle /\ DbIdle /\ NotifyIdle

SpecLimit == InitLimit /\ [][NextBills]_vars

\* the backward search of the bill ends at its limit, still after the start of
\* the interval of the call
LimitReached(bill) ==
  /\ bill.frequency \in {"weekly", "fortnightly"}
  /\ IsNumber(bill.amount) /\ IsNumber(bill._creationTime)
  /\ LET search == BackwardLoop(Num(bill._creationTime), bill.frequency,
                                startOfDay(dateRange.startDate))
     IN  /\ search.backwardIterations >= MaxBackwardIterations
         /\ search.currentDate > startOfDay(dateRange.startDate)

LimitNotReached(bill) == ~LimitReached(bill)

\* C26: when the backward search of a weekly or fortnightly bill reaches its
\* limit of 1000 steps without arriving at or before the interval start, the
\* bill adds 0 to the total, and the call returns the total of the other bills
\* of the list.
C26_LimitReachedContributesNothing ==
  Returned =>
    /\ \A i \in 1..Len(bills) :
         LimitReached(bills[i]) =>
           BillAmount(bills[i], [start |-> startOfDay(dateRange.startDate),
                                 end |-> endOfDay(dateRange.endDate)]) = 0
    /\ totalAmount = calculateUpcomingBillsTotal(SelectSeq(bills, LimitNotReached), dateRange)

(* ------------------------- the April scenario --------------------------- *)
\* midnight of a calendar date, months counted from 0
Midnight(year, month, date) == At(DayNumber(year, month, date), 0)

\* createBill's default _creationTime, 2023-01-01
DefaultCreationTime == At(-365, 0)

ScenarioBills ==
  <<Bill("monthly", 1500, Some(1), DefaultCreationTime, TRUE),
    Bill("monthly", 300, Some(20), DefaultCreationTime, TRUE),
    Bill("fortnightly", 250, None, Midnight(2024, 3, 5), TRUE),
    Bill("weekly", 150, None, Midnight(2024, 3, 10), TRUE),
    Bill("one-off", 100, Some(Midnight(2024, 2, 20)), DefaultCreationTime, TRUE),
    Bill("one-off", 80, Some(Midnight(2024, 3, 25)), DefaultCreationTime, TRUE),
    Bill("one-off", 450, Some(Midnight(2024, 4, 10)), DefaultCreationTime, TRUE),
    Bill("monthly", 20, Some(10), DefaultCreationTime, FALSE)>>

\* the ranges between 2024-04-13 and 2024-05-05
ScenarioRanges ==
  LET times == {At(d, k) : d \in DayNumber(2024, 3, 13)..DayNumber(2024, 4, 5),
                           k \in 0..(TicksPerDay - 1)}
  IN  {r \in [startDate : times, endDate : times] : DayOf(r.startDate) <= DayOf(r.endDate)}

InitScenario ==
  /\ bills = ScenarioBills
  /\ dateRange = NoRange
  /\ totalAmount = 0
  /\ now = At(DayNumber(2024, 3, 15), TicksPerDay - 1)
  /\ settings = NoSettings
  /\ count = 0
  /\ schedule = <<>>
  /\ called = "none"
  /\ CallIdle /\ PaydayIdle /\ CycleIdle /\ DbIdle /\ NotifyIdle

ScenarioTotal ==
  /\ called = "none"
  /\ \E range \in ScenarioRanges :
       /\ dateRange' = range
       /\ totalAmount' = calculateUpcomingBillsTotal(bills, range)
  /\ called' = IF NeverReturns(bills) THEN "running" ELSE "calculateUpcomingBillsTotal"
  /\ UNCHANGED <<bills, now, settings, count, schedule>>
  /\ UNCHANGED <<callVars, paydayVars, cycleVars, dbVars, notifyVars>>

ScenarioBetweenDates ==
  /\ called = "none"
  /\ \E range \in ScenarioRanges :
       /\ dateRange' = range
       /\ totalAmount' = calculateBillsBetweenDates(bills, range.startDate, range.endDate)
  /\ called' = IF NeverReturns(bills) THEN "running" ELSE "calculateBillsBetweenDates"
  /\ UNCHANGED <<bills, now, settings, count, schedule>>
  /\ UNCHANGED <<callVars, paydayVars, cycleVars, dbVars, notifyVars>>

NextScenario == ScenarioTotal \/ ScenarioBetweenDates

SpecScenario == InitScenario /\ [][NextScenario]_vars

RangeIs(startDay, endDay) ==
  DayOf(dateRange.startDate) = startDay /\ DayOf(dateRange.endDate) = endDay

\* C13: for the scenario bill set the total over [2024-04-15, 2024-04-29] is
\* 930: 300 of the monthly bill on the 20th, 250 of the fortnightly bill on
\* 2024-04-19, 2 * 150 of the weekly bill on 2024-04-17 and 2024-04-24, 80 of the
\* one-off bill on 2024-04-25.
C13_ScenarioTotal ==
  (Returned /\ RangeIs(DayNumber(2024, 3, 15), DayNumber(2024, 3, 29)))
    => totalAmount = 300 + 250 + 2 * 150 + 80

\* the call of the test: from some time into 2024-04-15 to midnight of 2024-04-29
C13_Witness ==
  /\ called = "calculateUpcomingBillsTotal"
  /\ bills = ScenarioBills
  /\ dateRange = [startDate |-> At(DayNumber(2024, 3, 15), TicksPerDay - 1),
                  endDate |-> Midnight(2024, 3, 29)]
  /\ totalAmount = 930

(* ------------------------- the schedule generator ---------------------- *)
\* String.prototype.toLowerCase on the names that occur
toLowerCase(str) ==
  CASE str = "Sunday" -> "sunday"
    [] str = "Monday" -> "monday"
    [] str = "Tuesday" -> "tuesday"
    [] str = "Wednesday" -> "wednesday"
    [] str = "Thursday" -> "thursday"
    [] str = "Friday" -> "friday"
    [] str = "Saturday" -> "saturday"
    [] str = "Weekly" -> "weekly"
    [] str = "Fortnightly" -> "fortnightly"
    [] OTHER -> str

dayOfWeekMap ==
  [sunday |-> 0, monday |-> 1, tuesday |-> 2, wednesday |-> 3,
   thursday |-> 4, friday |-> 5, saturday |-> 6]

\* the lower-case names every plain object inherits from Object.prototype
ObjectPrototypeKeys == {"constructor", "__proto__"}

\* dayOfWeekMap[key]: the number of an own key, undefined for an unknown key, and
\* for an inherited key a function or object, NaN in every arithmetic use
DayOfWeekLookup(key) ==
  IF key \in DOMAIN dayOfWeekMap THEN Some(dayOfWeekMap[key])
  ELSE IF key \in ObjectPrototypeKeys THEN Some(NaN)
  ELSE None

\* !x for a string, null or undefined
Falsy(x) == x \in {NoValue, ""}

InitialDaysToAddSameDay(targetDayNum, today) == (targetDayNum - getDay(today) + 7) % 7

\* the days from today to the first allowance
InitialDaysToAdd(targetDayNum, today) ==
  LET currentDayNum == getDay(today)
      daysUntilNextTargetDay == (targetDayNum - currentDayNum + 7) % 7
  IN  IF daysUntilNextTargetDay = 0 THEN 7 ELSE daysUntilNextTargetDay

IntervalDaysAlwaysWeekly(desiredPayFrequency) ==
  IF toLowerCase(desiredPayFrequency) \in {"weekly", "fortnightly"} THEN 7 ELSE 0

\* the switch on desiredPayFrequency.toLowerCase(); 0 stands for its default branch
IntervalDays(desiredPayFrequency) ==
  CASE toLowerCase(desiredPayFrequency) = "weekly" -> 7
    [] toLowerCase(desiredPayFrequency) = "fortnightly" -> 14
    [] OTHER -> 0

\* what the period of one allowance is charged with
BillsDueInPeriod(bs, currentAllowanceDate, nextAllowanceDate) ==
  calculateBillsBetweenDates(bs, currentAllowanceDate, nextAllowanceDate)

LeftoverClamped(desiredPayAmount, billsDueInPeriod) ==
  IF desiredPayAmount < billsDueInPeriod THEN 0 ELSE desiredPayAmount - billsDueInPeriod

LeftoverForPeriod(desiredPayAmount, billsDueInPeriod) == desiredPayAmount - billsDueInPeriod

\* the for loop, from iteration i on
RECURSIVE ScheduleLoop(_, _, _, _, _, _)
ScheduleLoop(i, cnt, currentAllowanceDate, intervalDays, desiredPayAmount, bs) ==
  IF ~(i < cnt) THEN <<>>
  ELSE LET nextAllowanceDate == addDays(currentAllowanceDate, intervalDays)
           billsDueInPeriod == BillsDueInPeriod(bs, currentAllowanceDate, nextAllowanceDate)
           leftoverForPeriod == LeftoverForPeriod(desiredPayAmount, billsDueInPeriod)
       IN  <<[allowanceDate |-> currentAllowanceDate,
              allowanceAmount |-> desiredPayAmount,
              billsDueInPeriod |-> billsDueInPeriod,
              leftoverForPeriod |-> leftoverForPeriod]>>
           \o ScheduleLoop(i + 1, cnt, nextAllowanceDate, intervalDays, desiredPayAmount, bs)

generateProjectedSchedule(s, bs, cnt, clock) ==
  IF Falsy(s.desiredPayFrequency) \/ Falsy(s.desiredPayDayOfWeek)
     \/ ~IsNumber(s.desiredPayAmount)
  THEN <<>>
  ELSE IF DayOfWeekLookup(toLowerCase(s.desiredPayDayOfWeek)) = None THEN <<>>
  ELSE LET targetDayNum == Num(DayOfWeekLookup(toLowerCase(s.desiredPayDayOfWeek)))
           today == startOfDay(clock)
           first == addDays(today, InitialDaysToAdd(targetDayNum, today))
           intervalDays == IntervalDays(s.desiredPayFrequency)
       IN  IF intervalDays = 0 \/ targetDayNum = NaN THEN <<>>
           ELSE ScheduleLoop(0, cnt, first, intervalDays, Num(s.desiredPayAmount), bs)

\* with a NaN targetDayNum currentAllowanceDate is an Invalid Date: the loop is
\* entered when count >= 1 and startDate.toISOString() in
\* calculateBillsBetweenDates throws a RangeError, which nothing catches
generateProjectedScheduleThrows(s, cnt) ==
  /\ ~(Falsy(s.desiredPayFrequency) \/ Falsy(s.desiredPayDayOfWeek)
        \/ ~IsNumber(s.desiredPayAmount))
  /\ DayOfWeekLookup(toLowerCase(s.desiredPayDayOfWeek)) = Some(NaN)
  /\ IntervalDays(s.desiredPayFrequency) # 0
  /\ cnt >= 1

\* the loop is entered and calculateBillsBetweenDates never returns
generateProjectedScheduleHangs(s, bs, cnt, clock) ==
  /\ ~generateProjectedScheduleThrows(s, cnt)
  /\ generateProjectedSchedule(s, <<>>, cnt, clock) # <<>>
  /\ NeverReturns(bs)

\* some time into the Monday that follows every clock value: the second allowance
\* date of a weekly Monday schedule generated before the last clock day
BoundaryDue == At(FirstDay + Horizon + 7 - ((FirstDay + Horizon) % 7), TicksPerDay - 1)

ScheduleBillPool ==
  {Bill("one-off", 7, Some(BoundaryDue), At(0, 1), TRUE),
   Bill("weekly", 11, None, At(FirstDay - 10, 1), TRUE),
   Bill("monthly", 5, Some(1), At(0, 1), TRUE)}

SettingsPool ==
  [desiredPayFrequency : {"weekly", "fortnightly", "monthly"},
   desiredPayDayOfWeek : {"Monday", "saturday", NoValue},
   desiredPayAmount : {Some(4), None},
   nextPaydayTimestamp : {None, Some(At(FirstDay, 0)), Some(At(FirstDay + 20, 0))}]

InitSchedule ==
  /\ bills \in SeqsUpTo(ScheduleBillPool, MaxBills)
  /\ dateRange = NoRange
  /\ totalAmount = 0
  /\ now \in Times
  /\ settings \in SettingsPool
  /\ count = 0
  /\ schedule = <<>>
  /\ called = "none"
  /\ CallIdle /\ PaydayIdle /\ CycleIdle /\ DbIdle /\ NotifyIdle

GenerateProjectedSchedule ==
  /\ called = "none"
  /\ \E cnt \in 0..MaxCount :
       /\ count' = cnt
       /\ IF generateProjectedScheduleThrows(settings, cnt)
          THEN /\ thrown' = "RangeError" /\ schedule' = schedule
               /\ called' = "generateProjectedSchedule"
          ELSE IF generateProjectedScheduleHangs(settings, bills, cnt, now)
          THEN /\ thrown' = "none" /\ schedule' = schedule
               /\ called' = "running"
          ELSE /\ thrown' = "none"
               /\ schedule' = generateProjectedSchedule(settings, bills, cnt, now)
               /\ called' = "generateProjectedSchedule"
       /\ earlier' = [now |-> now, count |-> cnt, schedule |-> schedule', thrown |-> thrown']
  /\ UNCHANGED <<bills, dateRange, totalAmount, now, settings>>
  /\ UNCHANGED <<paydayVars, cycleVars, dbVars, notifyVars>>

NextSchedule == GenerateProjectedSchedule

SpecSchedule == InitSchedule /\ [][NextSchedule]_vars

Generated == called = "generateProjectedSchedule" /\ thrown = "none"

ValidSettings ==
  /\ toLowerCase(settings.desiredPayFrequency) \in {"weekly", "fortnightly"}
  /\ toLowerCase(settings.desiredPayDayOfWeek) \in DOMAIN dayOfWeekMap
  /\ IsNumber(settings.desiredPayAmount)

(* ------------------------- two calls, one after the other -------------- *)
InitPurity ==
  /\ bills \in SeqsUpTo(ScheduleBillPool, 1)
  /\ dateRange = NoRange
  /\ totalAmount = 0
  /\ now \in Times
  /\ settings \in {s \in SettingsPool : s.nextPaydayTimestamp = None}
  /\ count = 0
  /\ schedule = <<>>
  /\ called = "none"
  /\ CallIdle /\ PaydayIdle /\ CycleIdle /\ DbIdle /\ NotifyIdle

\* time passes between the two calls
Tick ==
  /\ called = "generateProjectedSchedule"
  /\ now < At(LastDay, TicksPerDay - 1)
  /\ now' = now + 1
  /\ UNCHANGED <<bills, dateRange, totalAmount, settings, count, schedule, called>>
  /\ UNCHANGED <<callVars, paydayVars, cycleVars, dbVars, notifyVars>>

\* a second call with the arguments of the first; new Date() is read again
GenerateProjectedScheduleAgain ==
  /\ called = "generateProjectedSchedule"
  /\ IF generateProjectedScheduleThrows(settings, count)
     THEN /\ thrown' = "RangeError" /\ schedule' = schedule
          /\ called' = "generateProjectedSchedule again"
     ELSE IF generateProjectedScheduleHangs(settings, bills, count, now)
     THEN /\ thrown' = "none" /\ schedule' = schedule
          /\ called' = "running"
     ELSE /\ thrown' = "none"
          /\ schedule' = generateProjectedSchedule(settings, bills, count, now)
          /\ called' = "generateProjectedSchedule again"
  /\ UNCHANGED <<bills, dateRange, totalAmount, now, settings, count, earlier>>
  /\ UNCHANGED <<paydayVars, cycleVars, dbVars, notifyVars>>

NextPurity == GenerateProjectedSchedule \/ Tick \/ GenerateProjectedScheduleAgain

SpecPurity == InitPurity /\ [][NextPurity]_vars

\* C19: generateProjectedSchedule is a pure function of (settings, bills,
\* count): two calls with equal arguments return equal schedules, whenever they
\* are made.
C19_EqualArgumentsEqualSchedules ==
  called = "generateProjectedSchedule again"
    => (schedule = earlier.schedule /\ thrown = earlier.thrown)

(* ------------------------- calculateNextPayday -------------------------- *)
\* Date.prototype.setMonth(getMonth() + 1): same day number in the next month,
\* overflowing into the month after it when that month is shorter
setNextMonth(t) ==
  LET c == Calendar(DayOf(t))
  IN  At(DayNumber(c.year, c.month + 1, c.date), TimeOf(t))

\* new Date(year, month + 1, 0): the last day of a month
LastDayOfMonth(year, month) == At(DayNumber(year, month + 1, 0), 0)

\* case "monthly": the result is an optional date
MonthlyPayday(dayOfMonth, today) ==
  IF ~IsNumber(dayOfMonth) \/ Num(dayOfMonth) = 0 \/ Num(dayOfMonth) = NaN
     \/ ~(Num(dayOfMonth) >= 1 /\ Num(dayOfMonth) <= 31)
  THEN None
  ELSE LET payDay == Num(dayOfMonth)
           thisMonth == setDate(today, payDay)
           moved == IF thisMonth < today THEN setDate(setNextMonth(thisMonth), payDay)
                    ELSE thisMonth
           originalMonth == Calendar(DayOf(moved)).month
       IN  IF Calendar(DayOf(moved)).month # originalMonth
           THEN Some(LastDayOfMonth(Calendar(DayOf(today)).year, originalMonth))
           ELSE Some(moved)

WeeklyDaysToAddSameDay(targetDayNum, today) == (targetDayNum - getDay(today) + 7) % 7

\* case "weekly": the days from today to the next payday
WeeklyDaysToAdd(targetDayNum, today) ==
  LET currentDayNum == getDay(today)
      daysUntilTarget == (targetDayNum - currentDayNum + 7) % 7
  IN  IF daysUntilTarget = 0 THEN 7 ELSE daysUntilTarget

\* dayOfWeek ? dayOfWeekMap[dayOfWeek.toLowerCase()] : undefined
TargetDayNumOf(dayOfWeek) ==
  IF Falsy(dayOfWeek) THEN None ELSE DayOfWeekLookup(toLowerCase(dayOfWeek))

\* the result is an optional date: None is null, Some(NaN) an Invalid Date
calculateNextPayday(frequency, dayOfMonth, dayOfWeek, clock) ==
  IF Falsy(frequency) THEN None
  ELSE LET today == startOfDay(clock)
           targetDayNum == TargetDayNumOf(dayOfWeek)
       IN  CASE frequency = "monthly" -> MonthlyPayday(dayOfMonth, today)
             [] frequency = "fortnightly" ->
                  IF targetDayNum = None THEN None
                  ELSE IF Num(targetDayNum) = NaN THEN Some(NaN)
                  ELSE Some(addDays(addDays(today, InitialDaysToAdd(Num(targetDayNum), today)), 14))
             [] frequency = "weekly" ->
                  IF targetDayNum = None THEN None
                  ELSE IF Num(targetDayNum) = NaN THEN Some(NaN)
                  ELSE Some(addDays(today, WeeklyDaysToAdd(Num(targetDayNum), today)))
             [] OTHER -> None

\* settings as they can be stored or passed, valid or not
ConfigPool ==
  [desiredPayFrequency : {"weekly", "fortnightly", "monthly", "", NoValue},
   desiredPayDayOfWeek : {"Monday", "saturday", "someday", "constructor", NoValue},
   desiredPayAmount : {Some(4), None},
   nextPaydayTimestamp : {None}]

PaydayFrequencies == {"monthly", "fortnightly", "weekly", "Weekly", "yearly", NoValue}

DaysOfMonth == {None, Some(NaN), Some(0), Some(1), Some(15), Some(29), Some(30), Some(31), Some(32)}

InitPayday ==
  /\ bills \in SeqsUpTo(ScheduleBillPool, 1)
  /\ dateRange = NoRange
  /\ totalAmount = 0
  /\ now \in Times
  /\ settings \in ConfigPool
  /\ count = 0
  /\ schedule = <<>>
  /\ called = "none"
  /\ CallIdle /\ PaydayIdle /\ CycleIdle /\ DbIdle /\ NotifyIdle

\* a call with the stored weekday, any frequency and any day of the month
CalculateNextPayday ==
  /\ called = "none"
  /\ \E frequency \in PaydayFrequencies, dayOfMonth \in DaysOfMonth :
       /\ paydayArgs' = [frequency |-> frequency, dayOfMonth |-> dayOfMonth,
                         dayOfWeek |-> settings.desiredPayDayOfWeek]
       /\ nextPayday' = calculateNextPayday(frequency, dayOfMonth,
                                            settings.desiredPayDayOfWeek, now)
  /\ called' = "calculateNextPayday"
  /\ UNCHANGED <<bills, dateRange, totalAmount, now, settings, count, schedule>>
  /\ UNCHANGED <<callVars, cycleVars, dbVars, notifyVars>>

NextPayday == GenerateProjectedSchedule \/ CalculateNextPayday

SpecPayday == InitPayday /\ [][NextPayday]_vars

PaydayReturned == called = "calculateNextPayday"

Today == startOfDay(now)

(* ------------------- properties of invalid configuration --------------- *)
WeekdayNames ==
  {"sunday", "monday", "tuesday", "wednesday", "thursday", "friday", "saturday"}

KnownWeekday(dayOfWeek) == ~Falsy(dayOfWeek) /\ toLowerCase(dayOfWeek) \in WeekdayNames

InvalidScheduleSettings ==
  \/ Falsy(settings.desiredPayFrequency)
  \/ ~IsNumber(settings.desiredPayAmount)
  \/ ~KnownWeekday(settings.desiredPayDayOfWeek)
  \/ toLowerCase(settings.desiredPayFrequency) \notin {"weekly", "fortnightly"}

InvalidPaydayArgs ==
  \/ Falsy(paydayArgs.frequency)
  \/ paydayArgs.frequency \notin {"monthly", "fortnightly", "weekly"}
  \/ /\ paydayArgs.frequency \in {"fortnightly", "weekly"}
     /\ ~KnownWeekday(paydayArgs.dayOfWeek)
  \/ /\ paydayArgs.frequency = "monthly"
     /\ ~(paydayArgs.dayOfMonth # {} /\ paydayArgs.dayOfMonth \subseteq 1..31)

\* C11: invalid configuration yields an empty result, never an exception:
\* generateProjectedSchedule returns [] when a desired setting is absent, the
\* weekday name is unknown or the frequency is neither weekly nor fortnightly;
\* calculateNextPayday returns null when the frequency is missing or unsupported,
\* the weekday is missing or unknown (weekly, fortnightly) or the day of the month
\* is outside 1..31 (monthly).
C11_InvalidConfigurationEmpty ==
  /\ (called = "generateProjectedSchedule" /\ InvalidScheduleSettings)
       => (thrown = "none" /\ schedule = <<>>)
  /\ (PaydayReturned /\ InvalidPaydayArgs) => nextPayday = None

(* ------------------- properties of calculateNextPayday ----------------- *)
\* day d of a month, or the month's last day when the month is shorter
ClampedDay(year, month, d) ==
  LET last == DaysInMonth(year, month)
  IN  DayNumber(year, month, IF d < last THEN d ELSE last)

\* the occurrence of day d in the month of today when it is today or later,
\* otherwise the occurrence in the following month
ExpectedMonthlyPayday(d, today) ==
  LET c == Calendar(DayOf(today))
      following == (c.month + 1) % 12
      followingYear == IF c.month = 11 THEN c.year + 1 ELSE c.year
  IN  IF ClampedDay(c.year, c.month, d) >= DayOf(today)
      THEN At(ClampedDay(c.year, c.month, d), 0)
      ELSE At(ClampedDay(followingYear, following, d), 0)

\* C14: calculateNextPayday('monthly', d) with d in 1..31 called at time T
\* returns the occurrence in T's month, on day min(d, last day of the month),
\* when that date is today or later, otherwise the occurrence in the following
\* month on day min(d, last day of that month); it never returns a date in a
\* later month than these.
C14_MonthlyPaydayClamped ==
  (PaydayReturned /\ paydayArgs.frequency = "monthly"
     /\ paydayArgs.dayOfMonth # {} /\ paydayArgs.dayOfMonth \subseteq 1..31)
    => nextPayday = Some(ExpectedMonthlyPayday(Num(paydayArgs.dayOfMonth), Today))

\* C15: calculateNextPayday('weekly') with a valid dayOfWeek returns a date
\* strictly after today, on the target weekday and at most 7 days ahead; when
\* today is the target weekday it returns today + 7 days.
C15_WeeklyPaydayStrictlyAfter ==
  (PaydayReturned /\ paydayArgs.frequency = "weekly" /\ KnownWeekday(paydayArgs.dayOfWeek))
    => /\ nextPayday # None
       /\ Num(nextPayday) > Today
       /\ getDay(Num(nextPayday)) = dayOfWeekMap[toLowerCase(paydayArgs.dayOfWeek)]
       /\ DayOf(Num(nextPayday)) - DayOf(Today) <= 7
       /\ (getDay(Today) = dayOfWeekMap[toLowerCase(paydayArgs.dayOfWeek)]
            => Num(nextPayday) = addDays(Today, 7))

\* a call made on the target weekday returned the same weekday of the next week
C15_Witness ==
  /\ PaydayReturned /\ paydayArgs.frequency = "weekly"
  /\ KnownWeekday(paydayArgs.dayOfWeek)
  /\ getDay(now) = dayOfWeekMap[toLowerCase(paydayArgs.dayOfWeek)]
  /\ nextPayday = Some(addDays(Today, 7))

(* ------------------------- pay cycle conversions ------------------------ *)
\* An amount is a binary floating-point number m * 2^e whose significand m has
\* Precision bits (2^(Precision-1) <= m < 2^Precision), 0 (m = 0) or a negative
\* number (m < 0). Every product and quotient is rounded to the nearest such
\* number, ties to the even significand, as the IEEE 754 arithmetic of a
\* JavaScript number does with 53 bits.
Float(m, e) == [m |-> m, e |-> e]

\* the least t >= 0 with n < 2^(Precision + t)
RECURSIVE ExcessBits(_)
ExcessBits(n) == IF n < 2 ^ Precision THEN 0 ELSE 1 + ExcessBits(n \div 2)

\* the least s >= 0 with n * 2^s >= bound
RECURSIVE MissingBits(_, _)
MissingBits(n, bound) == IF n >= bound THEN 0 ELSE 1 + MissingBits(n * 2, bound)

\* q + rest, 0 <= rest < 1 given as the fraction num / den, rounded to nearest even
RoundHalfEven(q, num, den) ==
  IF 2 * num > den \/ (2 * num = den /\ q % 2 = 1) THEN q + 1 ELSE q

\* a rounded significand that reached 2^Precision takes the next exponent
Renormalize(m, e) ==
  IF m = 2 ^ Precision THEN Float(2 ^ (Precision - 1), e + 1) ELSE Float(m, e)

\* the number nearest to n * 2^e, n a positive integer
RoundToFloat(n, e) ==
  LET t == ExcessBits(n)
      s == MissingBits(n, 2 ^ (Precision - 1))
  IN  IF t = 0 THEN Float(n * 2 ^ s, e - s)
      ELSE Renormalize(RoundHalfEven(n \div 2 ^ t, n % 2 ^ t, 2 ^ t), e + t)

\* the integer n as a number
FromInt(n) == RoundToFloat(n, 0)

\* x * k for a positive number x and a positive integer k
FMul(x, k) == RoundToFloat(x.m * k, x.e)

\* x / k for a positive number x and a positive integer k
FDiv(x, k) ==
  LET s == MissingBits(x.m, k * 2 ^ (Precision - 1))
      n == x.m * 2 ^ s
  IN  Renormalize(RoundHalfEven(n \div k, n % k, k), x.e - s)

AnnualMultiplierTwiceMonthly(frequency) ==
  CASE frequency = "monthly" -> 12
    [] frequency = "fortnightly" -> 24
    [] frequency = "weekly" -> 52
    [] OTHER -> 0

\* the switch of calculateAnnualSalary; 0 stands for its default branch
AnnualMultiplier(frequency) ==
  CASE frequency = "monthly" -> 12
    [] frequency = "fortnightly" -> 26
    [] frequency = "weekly" -> 52
    [] OTHER -> 0

\* the switch of calculateTargetCycleAmount; 0 stands for its default branch
Divisor(frequency) ==
  CASE frequency = "monthly" -> 12
    [] frequency = "fortnightly" -> 26
    [] frequency = "weekly" -> 52
    [] OTHER -> 0

\* amount === null || amount === undefined || amount <= 0
NullOrNotPositive(amount) == amount = None \/ Num(amount).m <= 0

\* the result is an optional number: None is null
calculateAnnualSalary(amount, frequency) ==
  IF NullOrNotPositive(amount) \/ Falsy(frequency) THEN None
  ELSE IF AnnualMultiplier(frequency) = 0 THEN None
  ELSE Some(FMul(Num(amount), AnnualMultiplier(frequency)))

calculateTargetCycleAmount(annual, frequency) ==
  IF NullOrNotPositive(annual) \/ Falsy(frequency) THEN None
  ELSE IF Divisor(frequency) = 0 THEN None
  ELSE Some(FDiv(Num(annual), Divisor(frequency)))

\* every positive number of exponent 0, zero, a negative number, 5000, null
Amounts ==
  {Some(Float(m, 0)) : m \in (2 ^ (Precision - 1))..(2 ^ Precision - 1)}
    \cup {Some(Float(0, 0)), Some(Float(-(2 ^ (Precision - 1)), 0)), Some(FromInt(5000)), None}

Frequencies == {"monthly", "fortnightly", "weekly", "Monthly", "", NoValue}

InitCycle ==
  /\ bills = <<>>
  /\ dateRange = NoRange
  /\ totalAmount = 0
  /\ now = At(FirstDay, 0)
  /\ settings = NoSettings
  /\ count = 0
  /\ schedule = <<>>
  /\ called = "none"
  /\ CallIdle /\ PaydayIdle /\ DbIdle /\ NotifyIdle
  /\ payAmount \in Amounts
  /\ payFrequency \in Frequencies
  /\ annualSalary = None
  /\ targetFrequency = NoValue
  /\ targetCycleAmount = None

CalculateAnnualSalary ==
  /\ called = "none"
  /\ annualSalary' = calculateAnnualSalary(payAmount, payFrequency)
  /\ called' = "calculateAnnualSalary"
  /\ UNCHANGED <<payAmount, payFrequency, targetFrequency, targetCycleAmount>>
  /\ UNCHANGED <<bills, dateRange, totalAmount, now, settings, count, schedule>>
  /\ UNCHANGED <<callVars, paydayVars, dbVars, notifyVars>>

\* a call on the annual salary just calculated or, first of all, on payAmount
CalculateTargetCycleAmount ==
  /\ called \in {"none", "calculateAnnualSalary"}
  /\ annualSalary' = IF called = "none" THEN payAmount ELSE annualSalary
  /\ \E frequency \in Frequencies :
       /\ targetFrequency' = frequency
       /\ targetCycleAmount' = calculateTargetCycleAmount(annualSalary', frequency)
  /\ called' = IF called = "none" THEN "calculateTargetCycleAmount" ELSE "roundTrip"
  /\ UNCHANGED <<payAmount, payFrequency>>
  /\ UNCHANGED <<bills, dateRange, totalAmount, now, settings, count, schedule>>
  /\ UNCHANGED <<callVars, paydayVars, dbVars, notifyVars>>

NextCycle == CalculateAnnualSalary \/ CalculateTargetCycleAmount

SpecCycle == InitCycle /\ [][NextCycle]_vars

(* ------------------- properties of the conversions --------------------- *)
CycleFrequencies == {"monthly", "fortnightly", "weekly"}

\* the pay cycles of a year
CyclesPerYear(frequency) ==
  IF frequency = "monthly" THEN 12 ELSE IF frequency = "fortnightly" THEN 26 ELSE 52

IsPositive(amount) == amount # None /\ Num(amount).m > 0

\* C17: round trip of the cycle conversion: for every amount > 0 and every
\* frequency f of monthly, fortnightly, weekly,
\* calculateTargetCycleAmount(calculateAnnualSalary(amount, f), f) equals amount.
C17_RoundTripExact ==
  (called = "roundTrip" /\ IsPositive(payAmount) /\ payFrequency \in CycleFrequencies
     /\ targetFrequency = payFrequency)
    => targetCycleAmount = payAmount

\* C18: calculateAnnualSalary(amount, f) returns amount * 12, * 26, * 52 for f =
\* monthly, fortnightly, weekly and calculateTargetCycleAmount(annual, f) returns
\* annual divided by the same multiplier; each returns null, without throwing,
\* exactly when its amount is null, undefined or <= 0 or its frequency is empty
\* or not one of the three; 5000 monthly annualizes to 60000.
C18_ConversionsAndNulls ==
  /\ called \in {"calculateAnnualSalary", "roundTrip"} =>
       /\ thrown = "none"
       /\ annualSalary =
            IF IsPositive(payAmount) /\ payFrequency \in CycleFrequencies
            THEN Some(FMul(Num(payAmount), CyclesPerYear(payFrequency)))
            ELSE None
       /\ (payAmount = Some(FromInt(5000)) /\ payFrequency = "monthly")
            => annualSalary = Some(FromInt(60000))
  /\ called \in {"calculateTargetCycleAmount", "roundTrip"} =>
       /\ thrown = "none"
       /\ targetCycleAmount =
            IF IsPositive(annualSalary) /\ targetFrequency \in CycleFrequencies
            THEN Some(FDiv(Num(annualSalary), CyclesPerYear(targetFrequency)))
            ELSE None

\* 5000 monthly was annualized to 60000 and that converted to a fortnightly amount;
\* elsewhere a call returned null
C18_Witness ==
  /\ called = "roundTrip"
  /\ payAmount = Some(FromInt(5000)) /\ payFrequency = "monthly"
  /\ annualSalary = Some(FromInt(60000))
  /\ targetFrequency = "fortnightly"
  /\ targetCycleAmount = Some(FDiv(FromInt(60000), 26))

(* ------------------------- userSettings.upsert -------------------------- *)
Users == {"user_1", "user_2"}

\* the arguments of upsert
UpsertArgs ==
  [userId : Users,
   userEmail : {"user@example.com"},
   actualPayAmount : {None, Some(Float(0, 0)), Some(FromInt(1000)), Some(FromInt(2600)), Some(FromInt(3000)),
                      Some(FromInt(5000))},
   actualPayDayOfMonth : {Some(15)},
   desiredPayDayOfWeek : {"Friday"},
   desiredPayAmount : {None, Some(FromInt(999))},
   nextPaydayTimestamp : {None}]

\* annualSalary ? calculateTargetCycleAmount(annualSalary, "fortnightly") : null
desiredAmountCalculated(args) ==
  LET annual == calculateAnnualSalary(args.actualPayAmount, "monthly")
  IN  IF annual = None THEN None ELSE calculateTargetCycleAmount(annual, "fortnightly")

\* desiredAmountCalculated ?? args.desiredPayAmount ?? undefined
desiredAmountForDb(args) ==
  IF desiredAmountCalculated(args) # None THEN desiredAmountCalculated(args)
  ELSE args.desiredPayAmount

dataToSave(args) ==
  [userId |-> args.userId,
   userEmail |-> args.userEmail,
   actualPayAmount |-> args.actualPayAmount,
   actualPayFrequency |-> "monthly",
   actualPayDayOfMonth |-> args.actualPayDayOfMonth,
   desiredPayFrequency |-> "fortnightly",
   desiredPayDayOfWeek |-> args.desiredPayDayOfWeek,
   desiredPayAmount |-> desiredAmountForDb(args),
   nextPaydayTimestamp |-> args.nextPaydayTimestamp]

\* a document: its _id and its fields
Doc(id, fields) == [_id |-> id, fields |-> fields]

InitSettings ==
  /\ bills = <<>>
  /\ dateRange = NoRange
  /\ totalAmount = 0
  /\ now = At(FirstDay, 0)
  /\ settings = NoSettings
  /\ count = 0
  /\ schedule = <<>>
  /\ called = "none"
  /\ CallIdle /\ PaydayIdle /\ CycleIdle /\ DbIdle /\ NotifyIdle

SettingsOfNobody(userId) == {}

\* withIndex("by_userId", q => q.eq("userId", userId))
SettingsOf(userId) == {d \in userSettings : d.fields.userId = userId}

\* the mutation is one transaction. unique() throws when the index holds more
\* than one document of the user; otherwise every field of the existing document
\* is patched (an undefined value removes the field) or a document is inserted;
\* the handler returns the _id of the document it wrote
upsert(args) ==
  /\ IF Cardinality(SettingsOf(args.userId)) > 1
     THEN /\ thrown' = "Error" /\ returnedId' = None
          /\ UNCHANGED <<userSettings, nextId>>
     ELSE IF SettingsOf(args.userId) # {}
     THEN LET existingSettings == CHOOSE d \in SettingsOf(args.userId) : TRUE
          IN  /\ userSettings' = (userSettings \ {existingSettings})
                                    \cup {Doc(existingSettings._id, dataToSave(args))}
              /\ returnedId' = Some(existingSettings._id)
              /\ thrown' = "none" /\ UNCHANGED nextId
     ELSE /\ userSettings' = userSettings \cup {Doc(nextId, dataToSave(args))}
          /\ returnedId' = Some(nextId)
          /\ nextId' = nextId + 1
          /\ thrown' = "none"
  /\ called' = "upsert"
  /\ UNCHANGED <<bills, dateRange, totalAmount, now, settings, count, schedule>>
  /\ UNCHANGED <<earlier, paydayVars, cycleVars, billsTable, dbArgs, listed, notifyVars>>

Upsert == \E args \in UpsertArgs : upsert(args)

NextSettings == Upsert

SpecSettings == InitSettings /\ [][NextSettings]_vars

\* C16: after any sequence of upsert calls the stored desiredPayAmount, whenever
\* present, equals the stored actualPayAmount * 12 / 26 of the same record; it is
\* never taken from a caller-supplied desiredPayAmount.
C16_DesiredAmountDerived ==
  \A d \in userSettings :
    d.fields.desiredPayAmount # None =>
      /\ d.fields.actualPayAmount # None
      /\ d.fields.desiredPayAmount = Some(FDiv(FMul(Num(d.fields.actualPayAmount), 12), 26))

\* the document upsert has just written: the one whose _id it returned
Written == CHOOSE d \in userSettings : d._id = Num(returnedId)

\* the records a user has in the table
RecordsOf(userId) == {d \in userSettings : d.fields.userId = userId}

\* C21: PaySettings is a singleton per user. After any sequence of upsert calls
\* the userSettings table holds at most one record per userId, and an upsert
\* for a user who already has a record returns the _id of that record, rewrites
\* it with the data of the call and inserts nothing: every other record is as
\* it was.
C21_SingletonPerUser ==
  /\ [](\A u \in Users : Cardinality(RecordsOf(u)) <= 1)
  /\ [][(called' = "upsert" /\ thrown' = "none") =>
          /\ returnedId' # None
          /\ \E d \in userSettings' : d._id = Num(returnedId')
          /\ LET userId == Written'.fields.userId
             IN  RecordsOf(userId) # {} =>
                   /\ {d._id : d \in RecordsOf(userId)} = returnedId'
                   /\ {d._id : d \in userSettings'} = {d._id : d \in userSettings}
                   /\ \A d \in userSettings : d.fields.userId # userId => d \in userSettings'
                   /\ nextId' = nextId]_vars

\* both users have a record and the last upsert rewrote the older one
C21_Witness ==
  /\ called = "upsert" /\ thrown = "none"
  /\ \A u \in Users : Cardinality(RecordsOf(u)) = 1
  /\ returnedId # None /\ Num(returnedId) < nextId - 1

(* ------------------------- the bills table ------------------------------ *)
\* an optional boolean is a set with at most one element, like an optional number
UserIds == Users \cup {""}

AddBillArgs ==
  [userId : UserIds, name : {"Rent"}, amount : {1500}, frequency : {"monthly"},
   dueDate : {Some(1)}, isActive : {None, {TRUE}, {FALSE}}]

\* an absent field of updates is a field that is not patched
UpdateBillArgs ==
  [billId : 1..MaxBillDocs, userId : UserIds, name : {NoValue}, amount : {None},
   frequency : {NoValue, "weekly"}, dueDate : {None}, isActive : {None, {TRUE}, {FALSE}}]

DeleteBillArgs == [billId : 1..MaxBillDocs, userId : UserIds]

\* ctx.db.get(billId): the documents with that _id, none or one
BillById(billId) == {d \in billsTable : d._id = billId}

ActiveFilterNone(d) == TRUE

\* filter(q => q.neq(q.field('isActive'), false))
ActiveFilter(d) == d.isActive # {FALSE}

\* order("desc").collect(): a set of documents by descending creation
RECURSIVE Descending(_)
Descending(docs) ==
  IF docs = {} THEN <<>>
  ELSE LET newest == CHOOSE d \in docs : \A o \in docs : o._id <= d._id
       IN  <<newest>> \o Descending(docs \ {newest})

listActiveBillsByUserId(userId) ==
  IF Falsy(userId) THEN <<>>
  ELSE Descending({d \in billsTable : d.userId = userId /\ ActiveFilter(d)})

\* the fields updateBill patches: those of updates that are present
Patched(d, args) ==
  [d EXCEPT !.frequency = IF args.frequency = NoValue THEN @ ELSE args.frequency,
            !.name = IF args.name = NoValue THEN @ ELSE args.name,
            !.amount = IF args.amount = None THEN @ ELSE Num(args.amount),
            !.dueDate = IF args.dueDate = None THEN @ ELSE args.dueDate,
            !.isActive = IF args.isActive = None THEN @ ELSE args.isActive]

\* what a call that only reads or fails leaves alone
NoLibraryCall ==
  /\ UNCHANGED <<bills, dateRange, totalAmount, now, settings, count, schedule>>
  /\ UNCHANGED <<earlier, paydayVars, cycleVars, userSettings, returnedId, notifyVars>>

InitTable ==
  /\ bills = <<>>
  /\ dateRange = NoRange
  /\ totalAmount = 0
  /\ now = At(FirstDay, 0)
  /\ settings = NoSettings
  /\ count = 0
  /\ schedule = <<>>
  /\ called = "none"
  /\ CallIdle /\ PaydayIdle /\ CycleIdle /\ DbIdle /\ NotifyIdle

AddBill ==
  /\ nextId <= MaxBillDocs
  /\ \E args \in AddBillArgs :
       /\ dbArgs' = args
       /\ IF Falsy(args.userId)
          THEN thrown' = "Error" /\ UNCHANGED <<billsTable, nextId>>
          ELSE /\ billsTable' = billsTable \cup
                    {[_id |-> nextId, userId |-> args.userId,
                      isActive |-> IF args.isActive = None THEN {TRUE} ELSE args.isActive,
                      name |-> args.name, amount |-> args.amount,
                      frequency |-> args.frequency, dueDate |-> args.dueDate]}
               /\ nextId' = nextId + 1
               /\ thrown' = "none"
  /\ called' = "addBill"
  /\ listed' = <<>>
  /\ NoLibraryCall

NotFound(args) == BillById(args.billId) = {}

\* !existingBill, then existingBill.userId !== userId
NotFoundOrNotOwned(args) ==
  \/ BillById(args.billId) = {}
  \/ \E existingBill \in BillById(args.billId) : existingBill.userId # args.userId

\* the handler of updateBill. v.optional(v.number()) admits an absent dueDate
\* or a number, NaN included; null does not pass the validator, so the branch
\* args.dueDate === null is never taken
updateBill(args) ==
  /\ IF Falsy(args.userId) \/ NotFoundOrNotOwned(args)
     THEN thrown' = "Error" /\ UNCHANGED billsTable
     ELSE /\ billsTable' = {IF d._id = args.billId THEN Patched(d, args) ELSE d :
                              d \in billsTable}
          /\ thrown' = "none"
  /\ listed' = <<>>
  /\ UNCHANGED nextId
  /\ NoLibraryCall

UpdateBill ==
  \E args \in UpdateBillArgs :
    /\ dbArgs' = args
    /\ called' = "updateBill"
    /\ updateBill(args)

DeleteBill ==
  /\ \E args \in DeleteBillArgs :
       /\ dbArgs' = args
       /\ IF Falsy(args.userId) \/ NotFoundOrNotOwned(args)
          THEN thrown' = "Error" /\ UNCHANGED billsTable
          ELSE /\ billsTable' = billsTable \ BillById(args.billId)
               /\ thrown' = "none"
  /\ called' = "deleteBill"
  /\ listed' = <<>>
  /\ UNCHANGED nextId
  /\ NoLibraryCall

ListActiveBillsByUserId ==
  /\ \E userId \in UserIds :
       /\ dbArgs' = [userId |-> userId]
       /\ listed' = listActiveBillsByUserId(userId)
  /\ thrown' = "none"
  /\ called' = "listActiveBillsByUserId"
  /\ UNCHANGED <<billsTable, nextId>>
  /\ NoLibraryCall

NextTable == AddBill \/ UpdateBill \/ DeleteBill \/ ListActiveBillsByUserId

SpecTable == InitTable /\ [][NextTable]_vars

(* ------------------- the edit form of the bills route ------------------- *)
\* the fields of the form of intent editBill; the due date input holds a day
\* of the month for a monthly bill and a yyyy-MM-dd date for a one-off bill
EditForms ==
  {f \in [billId : 1..MaxBillDocs, userId : Users, name : {"Rent"}, amountStr : {"1700"},
          frequency : {"monthly", "one-off", "weekly", "fortnightly"},
          dueDateStr : {"", "15", "32", "2024-03-01"}, isActiveStr : {"on"}] :
     /\ f.frequency = "one-off" => f.dueDateStr \in {"", "2024-03-01"}
     /\ f.frequency # "one-off" => f.dueDateStr # "2024-03-01"}

\* parseFloat(amountStr)
parseFloat(str) == IF str = "1700" THEN 1700 ELSE NaN

\* dueDateStr ? parseInt(dueDateStr, 10) : NaN
parseInt(str) ==
  IF str = "15" THEN 15 ELSE IF str = "32" THEN 32
  ELSE IF str = "2024-03-01" THEN 2024 ELSE NaN

\* parseISO(dueDateStr).getTime()
parseISO(str) == IF str = "2024-03-01" THEN Midnight(2024, 2, 1) ELSE NaN

\* the validation of the form: the action returns a message and calls no
\* mutation
EditFormInvalid(f) ==
  \/ Falsy(f.name) \/ Falsy(f.amountStr) \/ Falsy(f.frequency)
  \/ parseFloat(f.amountStr) = NaN \/ parseFloat(f.amountStr) <= 0
  \/ /\ f.frequency = "monthly" /\ ~Falsy(f.dueDateStr)
     /\ (parseInt(f.dueDateStr) = NaN \/ parseInt(f.dueDateStr) < 1 \/ parseInt(f.dueDateStr) > 31)
  \/ f.frequency = "one-off" /\ ~Falsy(f.dueDateStr) /\ parseISO(f.dueDateStr) = NaN

\* the local dueDate of the action when it calls the mutation, null being
\* None: the monthly branch assigns dueDate = day after its if, whatever branch
\* was taken, and day is NaN for a blank input
EditDueDate(f) ==
  IF f.frequency = "monthly" THEN Some(parseInt(f.dueDateStr))
  ELSE IF f.frequency = "one-off"
  THEN IF Falsy(f.dueDateStr) THEN None ELSE Some(parseISO(f.dueDateStr))
  ELSE None

\* the arguments of the updateBill call: dueDate ?? undefined leaves out the
\* due date when the local is null
EditArgs(f) ==
  [billId |-> f.billId, userId |-> f.userId,
   name |-> f.name, amount |-> Some(parseFloat(f.amountStr)),
   frequency |-> f.frequency, dueDate |-> EditDueDate(f),
   isActive |-> {f.isActiveStr = "on"}]

\* the action of the route for intent editBill
EditBill ==
  \E f \in EditForms :
    /\ dbArgs' = f
    /\ called' = "editBill"
    /\ IF EditFormInvalid(f)
       THEN /\ thrown' = "none" /\ listed' = <<>>
            /\ UNCHANGED <<billsTable, nextId>>
            /\ NoLibraryCall
       ELSE updateBill(EditArgs(f))

\* the bills the route has added: a monthly bill of the first user and a
\* one-off bill of the second
StoredBills ==
  {[_id |-> 1, userId |-> "user_1", isActive |-> {TRUE}, name |-> "Rent", amount |-> 1500,
    frequency |-> "monthly", dueDate |-> Some(1)],
   [_id |-> 2, userId |-> "user_2", isActive |-> {TRUE}, name |-> "Rent", amount |-> 1500,
    frequency |-> "one-off", dueDate |-> Some(Midnight(2024, 3, 25))]}

InitEdit ==
  /\ bills = <<>>
  /\ dateRange = NoRange
  /\ totalAmount = 0
  /\ now = At(FirstDay, 0)
  /\ settings = NoSettings
  /\ count = 0
  /\ schedule = <<>>
  /\ called = "none"
  /\ CallIdle /\ PaydayIdle /\ CycleIdle /\ NotifyIdle
  /\ userSettings = {} /\ billsTable = StoredBills /\ nextId = 3
  /\ dbArgs = NoDbArgs /\ listed = <<>> /\ returnedId = None

NextEdit == EditBill

SpecEdit == InitEdit /\ [][NextEdit]_vars

(* ------------------- properties of the bills table --------------------- *)
Listed == {listed[i] : i \in 1..Len(listed)}

\* C20: after any sequence of addBill, updateBill and deleteBill calls,
\* listActiveBillsByUserId(u) returns exactly the stored bills of user u whose
\* isActive is not false, each once; a bill added without isActive is stored as
\* active; a bill set inactive by updateBill remains stored but is not listed.
C20_ListsExactlyActiveBills ==
  /\ called = "listActiveBillsByUserId" =>
       /\ Listed = {d \in billsTable : d.userId = dbArgs.userId /\ d.isActive # {FALSE}}
       /\ Cardinality(Listed) = Len(listed)
  /\ (called = "addBill" /\ thrown = "none" /\ dbArgs.isActive = None) =>
       \E d \in billsTable :
         d._id = nextId - 1 /\ d.userId = dbArgs.userId /\ d.isActive = {TRUE}
  /\ (called = "updateBill" /\ thrown = "none" /\ dbArgs.isActive = {FALSE}) =>
       \E d \in billsTable :
         /\ d._id = dbArgs.billId /\ d.isActive = {FALSE}
         /\ d \notin {e \in billsTable : ActiveFilter(e)}
         /\ listActiveBillsByUserId(d.userId)
              = Descending({e \in billsTable : e.userId = d.userId /\ e._id # d._id
                                                /\ e.isActive # {FALSE}})

\* a user has an inactive bill and an active one; only the active one is listed
C20_Witness ==
  /\ called = "listActiveBillsByUserId"
  /\ Len(listed) = 1
  /\ \E d \in billsTable : d.userId = dbArgs.userId /\ d.isActive = {FALSE}

\* the bill named by the arguments of a call is not stored or is stored for
\* another user
NotTheOwner(args) ==
  \A d \in billsTable : d._id = args.billId => d.userId # args.userId

\* C28: updateBill and deleteBill change a bill only for its owner. A call
\* whose bill does not exist, or is stored with a userId other than the userId
\* argument, fails with an error and leaves the bills table exactly as it was;
\* and no call changes the userId of a stored bill, so every bill keeps the
\* userId it was added with.
C28_OnlyTheOwnerChangesABill ==
  [][/\ (called' \in {"updateBill", "deleteBill"} /\ NotTheOwner(dbArgs')) =>
          thrown' = "Error" /\ billsTable' = billsTable
     /\ \A d \in billsTable, e \in billsTable' : e._id = d._id => e.userId = d.userId
     /\ (called' = "addBill" /\ thrown' = "none") =>
          \E e \in billsTable' \ billsTable : e.userId = dbArgs'.userId]_vars

\* a user has tried to update or to delete a bill stored for the other user
C28_Witness ==
  /\ called \in {"updateBill", "deleteBill"} /\ thrown = "Error"
  /\ dbArgs.userId \in Users
  /\ \E d \in billsTable : d._id = dbArgs.billId /\ d.userId \in Users \ {dbArgs.userId}

\* the edit form, valid, left the due date blank or chose a frequency that has
\* no due date
DueDateLeftOut(f) ==
  /\ ~EditFormInvalid(f)
  /\ f.dueDateStr = "" \/ f.frequency \in {"weekly", "fortnightly"}

\* C27: updateBill can clear a bill's due date. After an edit that succeeds and
\* leaves the due date blank or changes the frequency to weekly or fortnightly,
\* the stored dueDate of the bill is absent; its _id and userId, which the edit
\* does not name, and every other bill are unchanged.
C27_EditClearsDueDate ==
  [][(called' = "editBill" /\ thrown' = "none" /\ DueDateLeftOut(dbArgs')) =>
       \E d \in billsTable, e \in billsTable' :
         /\ d._id = dbArgs'.billId /\ e._id = d._id /\ e.userId = d.userId
         /\ e.dueDate = None
         /\ billsTable' \ {e} = billsTable \ {d}]_vars

(* ------------------- the payday reminder (Inngest) ---------------------- *)
MaxRuns == 2

\* the paydays a user may save: the reminder of the first is due at once, the
\* reminder of the second a day later
Paydays == {At(FirstDay + 2, 0), At(FirstDay + 3, 0)}

SaveArgsOf(userId, userEmail, actualPayAmount, nextPaydayTimestamp) ==
  [userId |-> userId, userEmail |-> userEmail, actualPayAmount |-> actualPayAmount,
   actualPayDayOfMonth |-> Some(15), desiredPayDayOfWeek |-> "Friday",
   desiredPayAmount |-> None, nextPaydayTimestamp |-> nextPaydayTimestamp]

\* the arguments of the upsert calls: complete settings with either payday;
\* the first user also saves settings without an email, without an amount and
\* without a payday
SaveArgs ==
  {SaveArgsOf(u, "user@example.com", Some(FromInt(2600)), Some(p)) : u \in Users, p \in Paydays}
    \cup {SaveArgsOf("user_1", "", Some(FromInt(2600)), Some(At(FirstDay + 2, 0))),
          SaveArgsOf("user_1", "user@example.com", None, Some(At(FirstDay + 2, 0))),
          SaveArgsOf("user_1", "user@example.com", Some(FromInt(2600)), None)}

\* a run of scheduleNotifications: the data of its event, the step it is at,
\* the result of its step fetch-user-settings (none before the step has run)
\* and the date it sleeps until
Run(userId, userSettingsId) ==
  [userId |-> userId, userSettingsId |-> userSettingsId, step |-> "queued",
   userSettings |-> {}, notificationDate |-> None]

RunIds == 1..Len(runs)

\* the steps during which a run executes code; a run that sleeps in
\* step.sleepUntil or waits in step.invoke executes none
Executing(run) == run.step = "fetch-user-settings"

\* concurrency: { limit: 1, key: "event.data.userId" }: Inngest starts a step of
\* the function only while no other run with the same key executes one
ConcurrencyFree(userId) ==
  \A r \in RunIds : runs[r].userId = userId => ~Executing(runs[r])

\* !userSettings || !userSettings.nextPaydayTimestamp || !userSettings.userEmail
SettingsInvalid(found) ==
  \/ found = {}
  \/ \E d \in found :
       \/ d.nextPaydayTimestamp = None
       \/ Num(d.nextPaydayTimestamp) = 0 \/ Num(d.nextPaydayTimestamp) = NaN
       \/ d.userEmail = ""

\* the data step.invoke hands to sendPaydayNotification
invokePayload(run) ==
  LET userSettings_ == CHOOSE d \in run.userSettings : TRUE
  IN  [userId |-> run.userId,
       userEmail |-> userSettings_.userEmail,
       targetAmount |-> userSettings_.desiredPayAmount,
       payday |-> Num(userSettings_.nextPaydayTimestamp)]

\* !payload || !payload.userEmail || !payload.userId
PayloadInvalid(payload) == payload.userEmail = "" \/ payload.userId = ""

NotifyFrame ==
  /\ UNCHANGED <<bills, dateRange, totalAmount, settings, count, schedule, called>>
  /\ UNCHANGED <<callVars, paydayVars, cycleVars, dbVars>>

InitNotify ==
  /\ bills = <<>>
  /\ dateRange = NoRange
  /\ totalAmount = 0
  /\ now = At(FirstDay, 0)
  /\ settings = NoSettings
  /\ count = 0
  /\ schedule = <<>>
  /\ called = "none"
  /\ CallIdle /\ PaydayIdle /\ CycleIdle /\ DbIdle /\ NotifyIdle

\* the settings action of the route: it saves with userSettings.upsert and
\* returns; it sends no event
SaveSettings == \E args \in SaveArgs : upsert(args)

\* an event user/settings.updated arrives for a stored settings document
SettingsUpdated ==
  /\ Len(runs) < MaxRuns
  /\ \E d \in userSettings :
       runs' = Append(runs, Run(d.fields.userId, d._id))
  /\ UNCHANGED <<now, emails>>
  /\ NotifyFrame

\* Inngest starts a queued run when the concurrency key of its user is free
StartRun ==
  /\ \E r \in RunIds :
       /\ runs[r].step = "queued"
       /\ ConcurrencyFree(runs[r].userId)
       /\ runs' = [runs EXCEPT ![r].step = "fetch-user-settings"]
  /\ UNCHANGED <<now, emails>>
  /\ NotifyFrame

\* the handler from step fetch-user-settings to step.sleepUntil: it reads the
\* document by id, returns early on invalid settings and otherwise sleeps
\* until two days before the payday
FetchUserSettings ==
  /\ \E r \in RunIds :
       /\ runs[r].step = "fetch-user-settings"
       /\ LET found == {d.fields : d \in {e \in userSettings : e._id = runs[r].userSettingsId}}
          IN  IF SettingsInvalid(found)
              THEN runs' = [runs EXCEPT ![r].userSettings = found,
                                        ![r].step = "cancelled"]
              ELSE runs' = [runs EXCEPT
                              ![r].userSettings = found,
                              ![r].notificationDate =
                                 Some(addDays(Num((CHOOSE d \in found : TRUE).nextPaydayTimestamp), -2)),
                              ![r].step = "wait-for-notification"]
  /\ UNCHANGED <<now, emails>>
  /\ NotifyFrame

\* the sleep ends once the notification date has come; the handler invokes
\* sendPaydayNotification with the settings it fetched before the sleep
WakeUp ==
  /\ \E r \in RunIds :
       /\ runs[r].step = "wait-for-notification"
       /\ now >= Num(runs[r].notificationDate)
       /\ runs' = [runs EXCEPT ![r].step = "send-payday-notification"]
  /\ UNCHANGED <<now, emails>>
  /\ NotifyFrame

\* sendPaydayNotification, and the end of the run that invoked it: an invalid
\* payload or an error of Resend fails both, otherwise the email is sent
SendPaydayNotification ==
  /\ \E r \in RunIds, error \in BOOLEAN :
       /\ runs[r].step = "send-payday-notification"
       /\ LET payload == invokePayload(runs[r])
          IN  IF PayloadInvalid(payload) \/ error
              THEN /\ runs' = [runs EXCEPT ![r].step = "failed"]
                   /\ UNCHANGED emails
              ELSE /\ runs' = [runs EXCEPT ![r].step = "completed"]
                   /\ emails' = emails \cup
                        {[run |-> r, userId |-> payload.userId, to |-> payload.userEmail,
                          targetAmount |-> payload.targetAmount,
                          payday |-> payload.payday, sentAt |-> now]}
  /\ UNCHANGED now
  /\ NotifyFrame

\* a day passes, until the last reminder is due
TimePasses ==
  /\ \E p \in Paydays : now < addDays(p, -2)
  /\ now' = addDays(now, 1)
  /\ UNCHANGED <<bills, dateRange, totalAmount, settings, count, schedule, called>>
  /\ UNCHANGED <<callVars, paydayVars, cycleVars, dbVars, notifyVars>>

NextNotify ==
  \/ SaveSettings \/ SettingsUpdated \/ StartRun \/ FetchUserSettings
  \/ WakeUp \/ SendPaydayNotification \/ TimePasses

SpecNotify == InitNotify /\ [][NextNotify]_vars

\* Inngest runs every step that can run and time does not stop; nothing
\* obliges a user to save or an event to arrive
SpecNotifyFair ==
  /\ SpecNotify
  /\ WF_vars(StartRun) /\ WF_vars(FetchUserSettings) /\ WF_vars(WakeUp)
  /\ WF_vars(SendPaydayNotification) /\ WF_vars(TimePasses)

(* ------------------- properties of the payday reminder ------------------ *)
\* a run that has started and has not ended
InFlight(run) ==
  run.step \in {"fetch-user-settings", "wait-for-notification", "send-payday-notification"}

RunsInFlight(userId) == {r \in RunIds : runs[r].userId = userId /\ InFlight(runs[r])}

\* C22: at any time at most one scheduleNotifications run is in flight per
\* userId: two runs of the same user are never both started and not yet ended.
C22_OneRunInFlightPerUser ==
  \A u \in Users : Cardinality(RunsInFlight(u)) <= 1

\* the runs of a user that have read the settings the user has stored now
RunsOnSavedSettings(userId) ==
  {r \in RunIds : /\ runs[r].userId = userId
                  /\ runs[r].userSettings # {}
                  /\ runs[r].userSettings = {d.fields : d \in RecordsOf(userId)}}

\* C23: whenever a user's settings have been saved, a scheduleNotifications run
\* of that user is eventually started that has read the settings as they are
\* stored then (nextPaydayTimestamp, desiredPayAmount, userEmail).
C23_SaveStartsRun ==
  \A u \in Users : (RecordsOf(u) # {}) ~> (RunsOnSavedSettings(u) # {})

\* the settings a run has fetched lack the email or the desired amount
MissingEmailOrAmount(run) ==
  \E d \in run.userSettings : d.userEmail = "" \/ d.desiredPayAmount = None

\* C24: when the settings a run has fetched lack the user's email or the
\* desired amount, the run skips silently: it sends no email and neither it nor
\* the sendPaydayNotification it invokes ends failed.
C24_MissingEmailOrAmountSkips ==
  \A r \in RunIds :
    MissingEmailOrAmount(runs[r]) =>
      /\ runs[r].step # "failed"
      /\ \A e \in emails : e.run # r

\* the email carries the payday, the amount and the address the user has
\* stored now
FollowsLatestSettings(e) ==
  \E d \in RecordsOf(e.userId) :
    /\ d.fields.nextPaydayTimestamp = Some(e.payday)
    /\ d.fields.desiredPayAmount = e.targetAmount
    /\ d.fields.userEmail = e.to

OnePerPayday ==
  \A e1, e2 \in emails : (e1.userId = e2.userId /\ e1.payday = e2.payday) => e1 = e2

NotBeforeTwoDaysAhead == \A e \in emails : e.sentAt >= addDays(e.payday, -2)

\* C29: the reminder is one-shot and follows the latest settings. A reminder
\* derived from settings that the user has updated since is never sent: every
\* email, when it is sent, carries the payday, amount and address stored then.
\* For each user at most one email is sent per payday, and none earlier than
\* two days before that payday.
C29_ReminderFollowsLatestSettings ==
  /\ [](OnePerPayday /\ NotBeforeTwoDaysAhead)
  /\ [][\A e \in emails' \ emails : FollowsLatestSettings(e)]_vars

(* ----------------- properties of the schedule generator ---------------- *)
TargetDayNum == dayOfWeekMap[toLowerCase(settings.desiredPayDayOfWeek)]

\* the first date among from, from + 1 day, ..., from + 6 days on the target weekday
FirstOnWeekday(from) ==
  CHOOSE t \in {addDays(from, k) : k \in 0..6} : getDay(t) = TargetDayNum

\* C6: a bill occurrence is counted in the billsDueInPeriod of at most one
\* schedule item (one on allowance date i+1 in item i only): with one-off bills,
\* which occur once each, the items together are charged at most the bills' sum.
C6_OccurrenceInOneItem ==
  (Generated /\ \A i \in 1..Len(bills) : bills[i].frequency = "one-off")
    => SumSeq([i \in 1..Len(schedule) |-> schedule[i].billsDueInPeriod])
         <= SumSeq([i \in 1..Len(bills) |-> Num(bills[i].amount)])

C8_NotBeforeNextActualPayday ==
  (Generated /\ ValidSettings /\ count >= 1 /\ IsNumber(settings.nextPaydayTimestamp))
    => /\ schedule # <<>>
       /\ schedule[1].allowanceDate = FirstOnWeekday(startOfDay(Num(settings.nextPaydayTimestamp)))
       /\ \A i \in 1..Len(schedule) :
            schedule[i].allowanceDate >= startOfDay(Num(settings.nextPaydayTimestamp))

CycleDays == IF toLowerCase(settings.desiredPayFrequency) = "weekly" THEN 7 ELSE 14

\* C9: with valid settings the schedule has exactly count items, their
\* allowanceDate strictly increasing, consecutive ones exactly 7 days apart for
\* 'weekly' and 14 days apart for 'fortnightly'.
C9_CountItemsOneCycleApart ==
  (Generated /\ ValidSettings)
    => /\ Len(schedule) = count
       /\ \A i \in 1..(Len(schedule) - 1) :
            /\ schedule[i].allowanceDate < schedule[i + 1].allowanceDate
            /\ DayOf(schedule[i + 1].allowanceDate) - DayOf(schedule[i].allowanceDate) = CycleDays
            /\ TimeOf(schedule[i + 1].allowanceDate) = TimeOf(schedule[i].allowanceDate)

\* a fortnightly schedule of at least two items
C9_Witness ==
  /\ Generated /\ ValidSettings
  /\ settings.desiredPayFrequency = "fortnightly"
  /\ count >= 2
  /\ Len(schedule) = count

\* C10: in every item allowanceAmount is settings.desiredPayAmount and
\* leftoverForPeriod is allowanceAmount - billsDueInPeriod, negative whenever the
\* bills exceed the allowance.
C10_LeftoverExact ==
  Generated =>
    \A i \in 1..Len(schedule) :
      /\ schedule[i].allowanceAmount = Num(settings.desiredPayAmount)
      /\ schedule[i].leftoverForPeriod = schedule[i].allowanceAmount - schedule[i].billsDueInPeriod
      /\ (schedule[i].billsDueInPeriod > schedule[i].allowanceAmount
            => schedule[i].leftoverForPeriod < 0)

\* an item whose bills exceed the allowance, next to one whose bills do not
C10_Witness ==
  /\ Generated
  /\ \E i \in 1..Len(schedule) : schedule[i].billsDueInPeriod > schedule[i].allowanceAmount
  /\ \E i \in 1..Len(schedule) : schedule[i].billsDueInPeriod < schedule[i].allowanceAmount

====
